---- MODULE Spec2Model ----
(***************************************************************************)
(* Menu manager: the menu-tree normalizer prepareMenuItemsForCreate (two   *)
(* textual copies, one per route) and the request handlers around it: the  *)
(* page loader, the form action (duplicateMenu / importMenu) and the       *)
(* export loader.                                                          *)
(***************************************************************************)
EXTENDS Integers, Sequences, FiniteSets, TLC

(***************************************************************************)
(* JavaScript values.  Every value is a tagged record; the payload field   *)
(* has a different name per tag, so values of different kinds are unequal  *)
(* without their payloads being compared.                                  *)
(***************************************************************************)
Undef == [t |-> "undefined"]
Null == [t |-> "null"]
Str(s) == [t |-> "string", s |-> s]
Num(n) == [t |-> "number", n |-> n]
Bool(b) == [t |-> "boolean", b |-> b]
Arr(a) == [t |-> "array", a |-> a]
Obj(o) == [t |-> "object", o |-> o]
\* a thrown Error carrying a message
Throw(m) == [t |-> "throw", m |-> m]

IsArray(v) == v.t = "array"
IsObject(v) == v.t = "object"
IsThrow(v) == v.t = "throw"

\* ToBoolean: undefined, null, "", 0 and false are falsy, all else truthy
Truthy(v) ==
    /\ v # Undef
    /\ v # Null
    /\ v # Str("")
    /\ v # Num(0)
    /\ v # Bool(FALSE)

\* v.length === 0 : only the empty array (the empty string is falsy and never
\* gets here; other values have no length or a positive one)
LengthIsZero(v) == IsArray(v) /\ Len(v.a) = 0

\* v.length > 0 : a non-empty array or a non-empty string
LengthPositive(v) ==
    \/ IsArray(v) /\ Len(v.a) > 0
    \/ v.t = "string" /\ v.s # ""

\* o.f for a value o that is neither null nor undefined: the own property of
\* an object, undefined for a missing key and for the keys read here on
\* primitives and arrays
Get(o, f) ==
    IF IsObject(o) /\ f \in DOMAIN o.o THEN o.o[f] ELSE Undef

\* a record extended (or overwritten) with key f
Put(r, f, v) == [k \in DOMAIN r \cup {f} |-> IF k = f THEN v ELSE r[k]]

\* the first thrown value of a sequence of results
FirstThrow(s) ==
    s[CHOOSE k \in 1..Len(s) :
        IsThrow(s[k]) /\ \A j \in 1..(k - 1) : ~IsThrow(s[j])]

RECURSIVE prepareMenuItemsForCreate(_)
RECURSIVE exportPrepareMenuItemsForCreate(_)

(***************************************************************************)
(* app._index.jsx : prepareMenuItemsForCreate                              *)
(***************************************************************************)
\* mutant: title and url exchanged
NewItemSwapped(item) ==
    [title |-> Get(item, "url"), url |-> Get(item, "title"),
     type |-> Get(item, "type")]

\* mutant: the whole source item is spread into the new one
NewItemSpread(item) ==
    [k \in DOMAIN item.o \cup {"title", "url", "type"} |-> Get(item, k)]

\* const newItem = { title: item.title, url: item.url, type: item.type }
NewItem(item) ==
    [title |-> Get(item, "title"), url |-> Get(item, "url"),
     type |-> Get(item, "type")]

\* mutant: resourceId copied whenever the key is defined
WithResourceIdDefined(newItem, item) ==
    IF Get(item, "resourceId") # Undef
    THEN Put(newItem, "resourceId", Get(item, "resourceId"))
    ELSE newItem

\* if (item.resourceId) newItem.resourceId = item.resourceId
WithResourceId(newItem, item) ==
    IF Truthy(Get(item, "resourceId"))
    THEN Put(newItem, "resourceId", Get(item, "resourceId"))
    ELSE newItem

\* mutant: the length test is dropped, so an empty child array is kept
WithItemsAlways(newItem, item) ==
    IF Truthy(Get(item, "items"))
    THEN LET sub == prepareMenuItemsForCreate(Get(item, "items"))
         IN  IF IsThrow(sub) THEN sub ELSE Obj(Put(newItem, "items", sub))
    ELSE Obj(newItem)

\* if (item.items && item.items.length > 0)
\*   newItem.items = prepareMenuItemsForCreate(item.items); return newItem
WithItems(newItem, item) ==
    IF Truthy(Get(item, "items")) /\ LengthPositive(Get(item, "items"))
    THEN LET sub == prepareMenuItemsForCreate(Get(item, "items"))
         IN  IF IsThrow(sub) THEN sub ELSE Obj(Put(newItem, "items", sub))
    ELSE Obj(newItem)

\* the callback of items.map: reading a property of null or undefined throws
MapItem(item) ==
    IF item = Null \/ item = Undef
    THEN Throw("Cannot read properties of null or undefined")
    ELSE WithItems(WithResourceId(NewItem(item), item), item)

\* mutant: the output is built back to front
MapAllReversed(a) == [k \in 1..Len(a) |-> MapItem(a[Len(a) + 1 - k])]

\* items.map(callback): results in input order
MapAll(a) == [k \in 1..Len(a) |-> MapItem(a[k])]

prepareMenuItemsForCreate(items) ==
    IF ~Truthy(items) \/ LengthIsZero(items) THEN Arr(<<>>)
    ELSE IF ~IsArray(items) THEN Throw("items.map is not a function")
    ELSE LET mapped == MapAll(items.a)
         IN  IF \E k \in 1..Len(mapped) : IsThrow(mapped[k])
             THEN FirstThrow(mapped)
             ELSE Arr(mapped)

\* mutant: the export copy never carries resourceId over
ExportMapItemNoResourceId(item) ==
    IF item = Null \/ item = Undef
    THEN Throw("Cannot read properties of null or undefined")
    ELSE LET newItem == [title |-> Get(item, "title"),
                         url |-> Get(item, "url"),
                         type |-> Get(item, "type")]
         IN  IF Truthy(Get(item, "items")) /\ LengthPositive(Get(item, "items"))
             THEN LET sub == exportPrepareMenuItemsForCreate(Get(item, "items"))
                  IN  IF IsThrow(sub) THEN sub
                      ELSE Obj(Put(newItem, "items", sub))
             ELSE Obj(newItem)

(***************************************************************************)
(* app.export-menu[.json].js : its own copy of prepareMenuItemsForCreate   *)
(***************************************************************************)
ExportMapItem(item) ==
    IF item = Null \/ item = Undef
    THEN Throw("Cannot read properties of null or undefined")
    ELSE LET newItem == [title |-> Get(item, "title"),
                         url |-> Get(item, "url"),
                         type |-> Get(item, "type")]
             withId == IF Truthy(Get(item, "resourceId"))
                       THEN Put(newItem, "resourceId", Get(item, "resourceId"))
                       ELSE newItem
         IN  IF Truthy(Get(item, "items")) /\ LengthPositive(Get(item, "items"))
             THEN LET sub == exportPrepareMenuItemsForCreate(Get(item, "items"))
                  IN  IF IsThrow(sub) THEN sub
                      ELSE Obj(Put(withId, "items", sub))
             ELSE Obj(withId)

exportPrepareMenuItemsForCreate(items) ==
    IF ~Truthy(items) \/ LengthIsZero(items) THEN Arr(<<>>)
    ELSE IF ~IsArray(items) THEN Throw("items.map is not a function")
    ELSE LET mapped == [k \in 1..Len(items.a) |-> ExportMapItem(items.a[k])]
         IN  IF \E k \in 1..Len(mapped) : IsThrow(mapped[k])
             THEN FirstThrow(mapped)
             ELSE Arr(mapped)

(***************************************************************************)
(* Raw menu item trees: what the remote API returns for the getMenu query  *)
(* and what an uploaded document's items array may hold.                   *)
(***************************************************************************)
\* largest number of items, over all levels, of a tree given to the normalizer
MaxNodes == 3

\* title, url and type of an item; the first carries an extra id field and
\* an empty items array when childless, the second has neither
RawBases ==
    { [id |-> Str("gid://shopify/MenuItem/1"), title |-> Str("Home"),
       url |-> Str("/"), type |-> Str("HTTP"), items |-> Arr(<<>>)],
      [title |-> Str("Shop"), url |-> Str("/collections/all"),
       type |-> Str("COLLECTION")] }

\* resourceId: absent, null, the empty string, or an identifier
RawResourceIds == {Undef, Null, Str(""), Str("gid://123")}

RawItem(base, rid, kids) ==
    LET withId == IF rid = Undef THEN base ELSE Put(base, "resourceId", rid)
    IN  Obj(IF kids = <<>> THEN withId ELSE Put(withId, "items", Arr(kids)))

RECURSIVE RawChildren(_, _, _, _)
\* the children of item p (0: the top level) among items i..Len(parent), in
\* index order; parent[i] < i names the item that item i is a child of
RawChildren(parent, label, p, i) ==
    IF i > Len(parent) THEN <<>>
    ELSE IF parent[i] = p
         THEN <<RawItem(label[i][1], label[i][2],
                        RawChildren(parent, label, i, i + 1))>>
              \o RawChildren(parent, label, p, i + 1)
         ELSE RawChildren(parent, label, p, i + 1)

\* the shapes of the item sequences with n items in all
RawShapes(n) == { parent \in [1..n -> 0..n] : \A i \in 1..n : parent[i] < i }

RawLabels(n) == [1..n -> RawBases \X RawResourceIds]

\* the well-formed inputs of the normalizer: absent, null or an item sequence
IsNormalizerInput(v) ==
    \/ v \in {Undef, Null}
    \/ \E n \in 0..MaxNodes : \E parent \in RawShapes(n), label \in RawLabels(n) :
          v = Arr(RawChildren(parent, label, 0, 1))

(***************************************************************************)
(* Strings whose characters the handlers inspect (form titles, handles):   *)
(* a Text is a string given as the sequence of its pieces, one character   *)
(* per piece wherever trim and the handle expressions look at it.          *)
(***************************************************************************)
Text(c) == [t |-> "string", c |-> c]

Whitespace == {" ", "\t", "\n"}

UpperLetters == <<"A", "B", "C", "D", "E", "F", "G", "H", "I", "J", "K", "L", "M",
                  "N", "O", "P", "Q", "R", "S", "T", "U", "V", "W", "X", "Y", "Z">>
LowerLetters == <<"a", "b", "c", "d", "e", "f", "g", "h", "i", "j", "k", "l", "m",
                  "n", "o", "p", "q", "r", "s", "t", "u", "v", "w", "x", "y", "z">>
Digits == {"0", "1", "2", "3", "4", "5", "6", "7", "8", "9"}

Range(f) == { f[i] : i \in DOMAIN f }

\* the class \w of a regular expression
WordChars == Range(UpperLetters) \cup Range(LowerLetters) \cup Digits \cup {"_"}

RECURSIVE TrimStart(_)
TrimStart(c) ==
    IF c # <<>> /\ Head(c) \in Whitespace THEN TrimStart(Tail(c)) ELSE c

RECURSIVE TrimEnd(_)
TrimEnd(c) ==
    IF c # <<>> /\ c[Len(c)] \in Whitespace
    THEN TrimEnd(SubSeq(c, 1, Len(c) - 1)) ELSE c

\* String.prototype.trim
Trim(c) == TrimEnd(TrimStart(c))

\* String.prototype.toLowerCase
ToLowerCase(c) ==
    [i \in 1..Len(c) |->
        IF \E j \in 1..Len(UpperLetters) : UpperLetters[j] = c[i]
        THEN LowerLetters[CHOOSE j \in 1..Len(UpperLetters) : UpperLetters[j] = c[i]]
        ELSE c[i]]

RECURSIVE HyphenateSpaces(_)
\* .replace(/\s+/g, "-") : every run of whitespace becomes one hyphen
HyphenateSpaces(c) ==
    IF c = <<>> THEN <<>>
    ELSE IF Head(c) \in Whitespace
         THEN <<"-">> \o HyphenateSpaces(TrimStart(c))
         ELSE <<Head(c)>> \o HyphenateSpaces(Tail(c))

\* .replace(/[^\w-]+/g, "") : only word characters and hyphens are kept
StripNonWord(c) == SelectSeq(c, LAMBDA x : x \in WordChars \cup {"-"})

\* Math.random().toString(36).substring(2, 8): up to six characters of
\* [0-9a-z]; empty when the random number is 0
RandomSuffixes == { <<"k", "3", "x", "9", "q", "a">>, <<>> }

\* `${title.toLowerCase().replace(/\s+/g, "-").replace(/[^\w-]+/g, "")}-${suffix}`
MenuHandle(title, suffix) ==
    StripNonWord(HyphenateSpaces(ToLowerCase(title))) \o <<"-">> \o suffix

(***************************************************************************)
(* Thrown values, responses of the handlers, replies of the remote API.    *)
(***************************************************************************)
\* a Response object (what the authentication collaborator throws to redirect)
ResponseVal(status) == [t |-> "response", status |-> status]
\* an Error object with its message
ErrorVal(m) == [t |-> "error", message |-> m]

\* error instanceof Response
IsResponse(e) == e.t = "response"
\* error.message
MessageOf(e) == IF e.t = "error" THEN e.message ELSE Undef

\* a || b
OrElse(a, b) == IF Truthy(a) THEN a ELSE b

\* reading a property of null or undefined throws
CanRead(v) == v # Null /\ v # Undef

TypeErrorVal == ErrorVal(Str("Cannot read properties of null"))

\* what a handler ends with: a returned response or a thrown value
NoOutcome == [kind |-> "none"]
Return(status, body) == [kind |-> "return", status |-> status, body |-> body]
Thrown(value) == [kind |-> "throw", value |-> value]

\* what the authentication collaborator may throw
AuthRaisable == { ResponseVal(302), ResponseVal(401),
                  ErrorVal(Str("session lookup failed")), ErrorVal(Undef) }

\* authenticate.admin(request): throws, or resolves with or without an admin
\* client
AuthOutcomes ==
    { [kind |-> "raise", value |-> e] : e \in AuthRaisable }
    \cup { [kind |-> "ok", admin |-> a] : a \in BOOLEAN }

\* how a remote GraphQL request may fail before a body is decoded: graphql()
\* rejects, or response.json() rejects
CallFailures ==
    { [kind |-> "reject", value |-> e] :
        e \in {ResponseVal(302), ErrorVal(Str("fetch failed")), ErrorVal(Str(""))} }
    \cup { [kind |-> "badBody", value |-> ErrorVal(Str("Unexpected end of JSON input"))] }

Json(v) == [kind |-> "json", json |-> v]

\* GraphQL-level errors; the errors entry of a GraphQL response, when
\* present, is a non-empty list
GqlError == Obj([message |-> Str("Throttled")])
GqlError2 == Obj([message |-> Str("Internal error")])
UserError1 ==
    Obj([code |-> Str("TAKEN"), field |-> Arr(<<Str("handle")>>),
         message |-> Str("Handle has already been taken")])
UserError2 ==
    Obj([code |-> Str("INVALID"), field |-> Arr(<<Str("items"), Str("0")>>),
         message |-> Str("Item is invalid")])

\* largest number of items, over all levels, of a menu the remote API
\* returns or an uploaded document holds
MaxMenuNodes == 2

MenuOf(itemsValue) ==
    Obj([handle |-> Str("main-menu"), title |-> Str("Main menu"),
         items |-> itemsValue])

\* decoded bodies of the getMenu query other than a menu with an item tree
MenuBodiesWithoutTree ==
    { Null,
      Obj(<<>>),
      Obj([errors |-> Arr(<<GqlError>>)]),
      Obj([errors |-> Arr(<<GqlError>>), data |-> Obj([menu |-> MenuOf(Arr(<<>>))])]),
      Obj([data |-> Null]),
      Obj([data |-> Obj([menu |-> Null])]),
      Obj([data |-> Obj([menu |-> Obj([handle |-> Str("main-menu"),
                                       title |-> Str("Main menu")])])]) }

\* the item trees a menu or an uploaded document may hold
MenuTrees ==
    UNION { { Arr(RawChildren(parent, label, 0, 1)) :
                parent \in RawShapes(n), label \in RawLabels(n) } :
            n \in 0..MaxMenuNodes }

\* replies to the getMenu query
MenuReplies ==
    CallFailures
    \cup { Json(b) : b \in MenuBodiesWithoutTree }
    \cup { Json(Obj([data |-> Obj([menu |-> MenuOf(tree)])])) : tree \in MenuTrees }

CreatedMenu ==
    Obj([id |-> Str("gid://shopify/Menu/2"), handle |-> Str("created"),
         title |-> Str("Created")])

\* decoded bodies of the menuCreate mutation
CreateBodies ==
    { Null,
      Obj([errors |-> Arr(<<GqlError>>)]),
      Obj([errors |-> Arr(<<GqlError>>), data |-> Null]),
      Obj([data |-> Obj([menuCreate |-> Null])]) }
    \cup { Obj([data |-> Obj([menuCreate |-> Obj([menu |-> m, userErrors |-> u])])]) :
             m \in {Null, CreatedMenu},
             u \in {Arr(<<>>), Arr(<<UserError1>>), Arr(<<UserError1, UserError2>>)} }
    \cup { Obj([data |-> Obj([menuCreate |-> Obj([menu |-> CreatedMenu])])]) }
    \cup { Obj([errors |-> e,
                data |-> Obj([menuCreate |-> Obj([menu |-> m, userErrors |-> u])])]) :
             e \in {Arr(<<GqlError>>), Arr(<<GqlError, GqlError2>>)},
             m \in {Null, CreatedMenu},
             u \in {Arr(<<>>), Arr(<<UserError1>>)} }

CreateReplies == CallFailures \cup { Json(b) : b \in CreateBodies }

(***************************************************************************)
(* Requests                                                                *)
(***************************************************************************)
\* the text of an uploaded file: not JSON, or the JSON text of a value
NotJsonText == [t |-> "text", json |-> FALSE]
JsonText(v) == [t |-> "text", json |-> TRUE, v |-> v]

\* JSON.parse: the value a JSON text denotes, a SyntaxError for any other text
JSONParse(text) ==
    IF text.json THEN text.v
    ELSE Throw("Unexpected token in JSON")

RECURSIVE JsonValue(_)
\* the value that survives JSON serialization: an object loses the keys whose
\* value is undefined, an undefined array element becomes null
JsonValue(v) ==
    IF IsObject(v)
    THEN Obj([k \in { f \in DOMAIN v.o : v.o[f] # Undef } |-> JsonValue(v.o[k])])
    ELSE IF IsArray(v)
    THEN Arr([k \in 1..Len(v.a) |->
                 IF v.a[k] = Undef THEN Null ELSE JsonValue(v.a[k])])
    ELSE v

\* JSON.stringify(v) for a value other than undefined
JSONStringify(v) == JsonText(JsonValue(v))

\* a File entry of the form; size 1 stands for any positive size
File(size, text) == [t |-> "file", size |-> size, text |-> text]

\* JSON documents that are not an object with an items array
ShapelessDocs ==
    { Null, Num(5), Str("abc"), Bool(TRUE), Arr(<<>>),
      Arr(<<Obj([title |-> Str("Home"), url |-> Str("/"), type |-> Str("HTTP")])>>),
      Obj(<<>>), Obj([title |-> Str("Main menu")]),
      Obj([items |-> Null]), Obj([items |-> Str("abc")]),
      Obj([items |-> Num(5)]), Obj([items |-> Obj(<<>>)]) }

\* documents with an items array that holds something other than item records
MalformedDocs ==
    { Obj([items |-> Arr(<<Null>>)]),
      Obj([items |-> Arr(<<Num(5)>>)]),
      Obj([items |-> Arr(<<Obj([title |-> Str("Home"), url |-> Str("/"),
                                type |-> Str("HTTP"), items |-> Str("abc")])>>)]) }

ImportDocs ==
    ShapelessDocs \cup MalformedDocs \cup { Obj([items |-> tree]) : tree \in MenuTrees }

\* the menuFile entry: absent, a plain string, an empty file, a file with text
MenuFileEntries ==
    { Null, Text(<<"m", "e", "n", "u">>), File(0, NotJsonText), File(1, NotJsonText) }
    \cup { File(1, JsonText(d)) : d \in ImportDocs }

\* a title entry: absent, empty, blank, or a title with surrounding blanks
TitleEntries ==
    { Null, Text(<<>>), Text(<<" ", "\t">>),
      Text(<<" ", "M", "y", " ", " ", "M", "e", "n", "u", "!", " ">>) }

MenuIdEntries == { Null, Str(""), Str("gid://shopify/Menu/1") }

\* the form data of a request to the action
Forms ==
    { [action |-> "duplicateMenu", originalMenuId |-> m, newMenuTitle |-> n] :
        m \in MenuIdEntries, n \in TitleEntries }
    \cup { [action |-> "importMenu", newImportMenuTitle |-> n, menuFile |-> f] :
             n \in TitleEntries, f \in MenuFileEntries }
    \cup { [action |-> "deleteMenu"], [action |-> "absent"] }

\* formData.get(name)?.toString().trim()
TrimmedEntry(entry) ==
    IF entry = Null THEN Undef ELSE Text(Trim(entry.c))

\* !title for the result of TrimmedEntry
IsBlank(title) == title = Undef \/ title = Text(<<>>)

VARIABLES
    normArg,    \* the argument of the running / last normalizer call
    normRet,    \* its return value; NotCalled before the call returns
    normCopy,   \* which route's copy was called: "index" or "export"
    handler,    \* the handler serving the request: "none", "pageLoader",
                \* "action" or "exportLoader"
    pc,         \* where the handler is: the await it is suspended at
    request,    \* the request: the form data (action), the menuId (export)
    authRaised, \* what authenticate.admin threw, NoOutcome if nothing
    admin,      \* the handler's admin client: Undef before authentication,
                \* then Bool(TRUE) if there is a usable one, else Bool(FALSE)
    calls,      \* the remote GraphQL requests issued, in order
    replies,    \* the replies received to them, in order
    outcome     \* what the handler ended with

NotCalled == [t |-> "notcalled"]

normVars == <<normArg, normRet, normCopy>>
handlerVars == <<handler, pc, request, authRaised, admin, calls, replies, outcome>>
vars == <<normArg, normRet, normCopy, handler, pc, request, authRaised, admin,
          calls, replies, outcome>>

NoRequest == [t |-> "norequest"]

\* no request is being served
HandlersIdle ==
    /\ handler = "none"
    /\ pc = "idle"
    /\ request = NoRequest
    /\ authRaised = NoOutcome
    /\ admin = Undef
    /\ calls = <<>>
    /\ replies = <<>>
    /\ outcome = NoOutcome

(***************************************************************************)
(* The normalizer on its own: one call of either copy on a well-formed     *)
(* input.                                                                  *)
(***************************************************************************)
InitNormalizer ==
    /\ IsNormalizerInput(normArg)
    /\ normRet = NotCalled
    /\ normCopy = "none"
    /\ HandlersIdle

CallIndexCopy ==
    /\ normRet = NotCalled
    /\ normRet' = prepareMenuItemsForCreate(normArg)
    /\ normCopy' = "index"
    /\ UNCHANGED <<normArg, handlerVars>>

CallExportCopy ==
    /\ normRet = NotCalled
    /\ normRet' = exportPrepareMenuItemsForCreate(normArg)
    /\ normCopy' = "export"
    /\ UNCHANGED <<normArg, handlerVars>>

NextNormalizer == CallIndexCopy \/ CallExportCopy

SpecNormalizer == InitNormalizer /\ [][NextNormalizer]_vars

(***************************************************************************)
(* The request handlers.  The runtime serves one request per invocation;   *)
(* a handler runs from one await to the next in one step.                  *)
(***************************************************************************)
Init ==
    /\ normArg = Undef
    /\ normRet = NotCalled
    /\ normCopy = "none"
    /\ HandlersIdle

\* the handler ends with outcome o
Finish(o) ==
    /\ outcome' = o
    /\ pc' = "done"

\* the handler calls a copy of the normalizer on arg and gets ret
Normalized(copy, arg, ret) ==
    /\ normArg' = arg
    /\ normRet' = ret
    /\ normCopy' = copy

\* the reply r to the pending remote request arrives
Received(r) == replies' = Append(replies, r)

\* a remote request is issued
Issued(call) == calls' = Append(calls, call)

Message(m) == Obj([message |-> Str(m)])
FieldMessage(f, m) == Obj([field |-> Arr(<<Str(f)>>), message |-> Str(m)])

(*------------------------- app._index.jsx : loader -----------------------*)
\* a request for the page arrives
StartPageLoader ==
    /\ HandlersIdle
    /\ handler' = "pageLoader"
    /\ pc' = "auth"
    /\ request' = [route |-> "app._index"]
    /\ UNCHANGED <<normVars, authRaised, admin, calls, replies, outcome>>

PageLoaderFailure(m) ==
    Return(500, Obj([menus |-> Arr(<<>>), errors |-> Arr(<<Message(m)>>),
                     actionName |-> Null]))

\* mutant: every authentication error is turned into the error body
PageLoaderAuthFailedNoRethrow(e) ==
    PageLoaderFailure("Authentication failed or an unexpected error occurred.")

\* catch (error) { if (error instanceof Response) throw error; return 500 }
PageLoaderAuthFailed(e) ==
    IF IsResponse(e) THEN Thrown(e)
    ELSE PageLoaderFailure("Authentication failed or an unexpected error occurred.")

\* the second catch, around the menus query
PageLoaderFetchFailed(e) ==
    IF IsResponse(e) THEN Thrown(e)
    ELSE PageLoaderFailure("Failed to fetch menus after authentication.")

\* await authenticate.admin(request), then the menus query is issued
PageLoaderAuthenticate ==
    /\ handler = "pageLoader"
    /\ pc = "auth"
    /\ \E a \in AuthOutcomes :
          IF a.kind = "raise"
          THEN /\ authRaised' = a.value
               /\ Finish(PageLoaderAuthFailed(a.value))
               /\ UNCHANGED <<admin, calls>>
          ELSE /\ UNCHANGED authRaised
               /\ admin' = Bool(a.admin)
               /\ IF ~a.admin
                  THEN /\ Finish(PageLoaderFailure(
                                "Admin context not available after authentication."))
                       /\ UNCHANGED calls
                  ELSE /\ Issued([op |-> "getMenusIds"])
                       /\ pc' = "awaitMenus"
                       /\ UNCHANGED outcome
    /\ UNCHANGED <<normVars, handler, request, replies>>

MenuNode(n) == Obj([id |-> Str(n), title |-> Str("Main menu")])

\* decoded bodies of the getMenusIds query
MenusBodies ==
    { Null,
      Obj([errors |-> Arr(<<GqlError>>)]),
      Obj([data |-> Null]),
      Obj([data |-> Obj([menus |-> Obj(<<>>)])]),
      Obj([data |-> Obj([menus |-> Obj([edges |-> Arr(<<>>)])])]),
      Obj([data |-> Obj([menus |-> Obj([edges |->
            Arr(<<Obj([node |-> MenuNode("gid://shopify/Menu/1")]),
                  Obj([node |-> MenuNode("gid://shopify/Menu/2")])>>)])])]) }

MenusReplies == CallFailures \cup { Json(b) : b \in MenusBodies }

\* the loader's result for a reply to the menus query
PageLoaderMenus(reply) ==
    IF reply.kind # "json" THEN PageLoaderFetchFailed(reply.value)
    ELSE IF ~CanRead(reply.json) THEN PageLoaderFetchFailed(TypeErrorVal)
    ELSE IF Truthy(Get(reply.json, "errors"))
    THEN Return(200, Obj([menus |-> Arr(<<>>), errors |-> Get(reply.json, "errors"),
                          actionName |-> Null]))
    ELSE LET menus == Get(Get(reply.json, "data"), "menus")
             edges == Get(menus, "edges")
         IN  IF ~CanRead(menus)
             THEN Return(200, Obj([menus |-> Arr(<<>>), errors |-> Null,
                                   actionName |-> Null]))
             ELSE IF ~IsArray(edges) THEN PageLoaderFetchFailed(TypeErrorVal)
             ELSE Return(200,
                    Obj([menus |-> Arr([k \in 1..Len(edges.a) |->
                                           Get(edges.a[k], "node")]),
                         errors |-> Null, actionName |-> Null]))

PageLoaderMenusReturn ==
    /\ handler = "pageLoader"
    /\ pc = "awaitMenus"
    /\ \E reply \in MenusReplies :
          /\ Received(reply)
          /\ Finish(PageLoaderMenus(reply))
    /\ UNCHANGED <<normVars, handler, request, authRaised, admin, calls>>

(*------------------------- app._index.jsx : action -----------------------*)
\* a form is submitted
StartAction ==
    /\ HandlersIdle
    /\ \E form \in Forms : request' = form
    /\ handler' = "action"
    /\ pc' = "auth"
    /\ UNCHANGED <<normVars, authRaised, admin, calls, replies, outcome>>

\* authenticate.admin is awaited outside any try: what it throws leaves the
\* action as it is
ActionAuthFailed(e) == Thrown(e)

ActionAuthenticate ==
    /\ handler = "action"
    /\ pc = "auth"
    /\ \E a \in AuthOutcomes :
          IF a.kind = "raise"
          THEN /\ authRaised' = a.value
               /\ Finish(ActionAuthFailed(a.value))
               /\ UNCHANGED admin
          ELSE /\ UNCHANGED authRaised
               /\ admin' = Bool(a.admin)
               /\ IF ~a.admin
                  THEN Finish(Return(200,
                         Obj([success |-> Bool(FALSE),
                              errors |-> Arr(<<Message(
                                  "Admin context not available for action.")>>)])))
                  ELSE /\ pc' = "awaitFormData"
                       /\ UNCHANGED outcome
    /\ UNCHANGED <<normVars, handler, request, calls, replies>>

ActionFailure(actionName, errors) ==
    Return(200, Obj([actionName |-> Str(actionName), success |-> Bool(FALSE),
                     errors |-> errors]))

\* mutant: a caught Response is thrown again, as the loaders do
ActionCaughtRethrowsResponse(actionName, e, fallback) ==
    IF IsResponse(e) THEN Thrown(e)
    ELSE ActionFailure(actionName,
             Arr(<<Obj([message |-> OrElse(MessageOf(e), Str(fallback))])>>))

\* catch (error) { return { success: false,
\*                          errors: [{ message: error.message || fallback }] } }
ActionCaught(actionName, e, fallback) ==
    ActionFailure(actionName,
        Arr(<<Obj([message |-> OrElse(MessageOf(e), Str(fallback))])>>))

\* mutant: the title is not checked
DuplicateFieldsMissingNoTitle(form) == ~Truthy(form.originalMenuId)

\* if (!originalMenuId || !newMenuTitle)
DuplicateFieldsMissing(form) ==
    \/ ~Truthy(form.originalMenuId)
    \/ IsBlank(TrimmedEntry(form.newMenuTitle))

\* if (!newMenuTitle || !uploadedFile || typeof uploadedFile === 'string'
\*     || uploadedFile.size === 0)
ImportFieldsMissing(form) ==
    \/ IsBlank(TrimmedEntry(form.newImportMenuTitle))
    \/ form.menuFile = Null
    \/ form.menuFile.t = "string"
    \/ form.menuFile.size = 0

\* the form data arrives; the branch for its _action runs up to its first await
ActionReadForm ==
    /\ handler = "action"
    /\ pc = "awaitFormData"
    /\ IF request.action = "duplicateMenu"
       THEN IF DuplicateFieldsMissing(request)
            THEN /\ Finish(ActionFailure("duplicateMenu",
                       Arr(<<FieldMessage("form",
                            "Original menu and new title are required.")>>)))
                 /\ UNCHANGED calls
            ELSE /\ Issued([op |-> "getMenu", id |-> request.originalMenuId])
                 /\ pc' = "awaitMenuDetails"
                 /\ UNCHANGED outcome
       ELSE IF request.action = "importMenu"
       THEN IF ImportFieldsMissing(request)
            THEN /\ Finish(ActionFailure("importMenu",
                       Arr(<<FieldMessage("form",
                            "New menu title and a valid JSON file are required.")>>)))
                 /\ UNCHANGED calls
            ELSE /\ pc' = "awaitFileText"
                 /\ UNCHANGED <<outcome, calls>>
       ELSE /\ Finish(Return(200, Obj([success |-> Bool(FALSE),
                                       errors |-> Arr(<<Message("Invalid action.")>>)])))
            /\ UNCHANGED calls
    /\ UNCHANGED <<normVars, handler, request, authRaised, admin, replies>>

\* the menuCreate request for a title, a random suffix and prepared items
CreateCall(title, suffix, items) ==
    [op |-> "menuCreate", title |-> title,
     handle |-> Text(MenuHandle(title.c, suffix)), items |-> items]

\* mutant: GraphQL-level errors are replaced by the generic message
CreateResultGenericMessage(actionName, failed, fallback, succeeded, reply) ==
    IF reply.kind # "json" THEN ActionCaught(actionName, reply.value, fallback)
    ELSE IF ~CanRead(reply.json) THEN ActionCaught(actionName, TypeErrorVal, fallback)
    ELSE LET menuCreate == Get(Get(reply.json, "data"), "menuCreate")
             userErrors == Get(menuCreate, "userErrors")
         IN  IF LengthPositive(userErrors)
             THEN ActionFailure(actionName, userErrors)
             ELSE IF Truthy(Get(reply.json, "errors")) \/ ~Truthy(Get(menuCreate, "menu"))
             THEN ActionFailure(actionName, Arr(<<Message(failed)>>))
             ELSE Return(200, Obj([actionName |-> Str(actionName),
                                   success |-> Bool(TRUE),
                                   createdMenu |-> Get(menuCreate, "menu"),
                                   message |-> succeeded]))

\* mutant: a reply without GraphQL errors counts as success, menu or not
CreateResultMenuNotRequired(actionName, failed, fallback, succeeded, reply) ==
    IF reply.kind # "json" THEN ActionCaught(actionName, reply.value, fallback)
    ELSE IF ~CanRead(reply.json) THEN ActionCaught(actionName, TypeErrorVal, fallback)
    ELSE LET menuCreate == Get(Get(reply.json, "data"), "menuCreate")
             userErrors == Get(menuCreate, "userErrors")
         IN  IF LengthPositive(userErrors)
             THEN ActionFailure(actionName, userErrors)
             ELSE IF Truthy(Get(reply.json, "errors"))
             THEN ActionFailure(actionName,
                      OrElse(Get(reply.json, "errors"), Arr(<<Message(failed)>>)))
             ELSE Return(200, Obj([actionName |-> Str(actionName),
                                   success |-> Bool(TRUE),
                                   createdMenu |-> Get(menuCreate, "menu"),
                                   message |-> succeeded]))

\* the response to a reply of menuCreate (the same code in both branches)
CreateResult(actionName, failed, fallback, succeeded, reply) ==
    IF reply.kind # "json" THEN ActionCaught(actionName, reply.value, fallback)
    ELSE IF ~CanRead(reply.json) THEN ActionCaught(actionName, TypeErrorVal, fallback)
    ELSE LET menuCreate == Get(Get(reply.json, "data"), "menuCreate")
             userErrors == Get(menuCreate, "userErrors")
         IN  IF LengthPositive(userErrors)
             THEN ActionFailure(actionName, userErrors)
             ELSE IF Truthy(Get(reply.json, "errors")) \/ ~Truthy(Get(menuCreate, "menu"))
             THEN ActionFailure(actionName,
                      OrElse(Get(reply.json, "errors"), Arr(<<Message(failed)>>)))
             ELSE Return(200, Obj([actionName |-> Str(actionName),
                                   success |-> Bool(TRUE),
                                   createdMenu |-> Get(menuCreate, "menu"),
                                   message |-> succeeded]))

\* mutant: GraphQL errors next to a menu are ignored
MenuDetailsFailedNoMenuOnly(json) == ~Truthy(Get(Get(json, "data"), "menu"))

\* if (menuDetailsJson.errors || !menuDetailsJson.data?.menu)
MenuDetailsFailed(json) ==
    \/ Truthy(Get(json, "errors"))
    \/ ~Truthy(Get(Get(json, "data"), "menu"))

\* the menu details arrive: the items are prepared and menuCreate is issued
DuplicateMenuDetailsReturn ==
    /\ handler = "action"
    /\ pc = "awaitMenuDetails"
    /\ \E reply \in MenuReplies, suffix \in RandomSuffixes :
          /\ Received(reply)
          /\ IF reply.kind # "json"
             THEN /\ Finish(ActionCaught("duplicateMenu", reply.value,
                                         "An unexpected error occurred."))
                  /\ UNCHANGED <<normVars, calls>>
             ELSE IF ~CanRead(reply.json)
             THEN /\ Finish(ActionCaught("duplicateMenu", TypeErrorVal,
                                         "An unexpected error occurred."))
                  /\ UNCHANGED <<normVars, calls>>
             ELSE IF MenuDetailsFailed(reply.json)
             THEN /\ Finish(ActionFailure("duplicateMenu",
                        OrElse(Get(reply.json, "errors"),
                               Arr(<<Message("Failed to fetch original menu details.")>>))))
                  /\ UNCHANGED <<normVars, calls>>
             ELSE LET items == Get(Get(Get(reply.json, "data"), "menu"), "items")
                      preparedItems == prepareMenuItemsForCreate(items)
                  IN  /\ Normalized("index", items, preparedItems)
                      /\ IF IsThrow(preparedItems)
                         THEN /\ Finish(ActionCaught("duplicateMenu",
                                    ErrorVal(Str(preparedItems.m)),
                                    "An unexpected error occurred."))
                              /\ UNCHANGED calls
                         ELSE /\ Issued(CreateCall(TrimmedEntry(request.newMenuTitle),
                                                   suffix, preparedItems))
                              /\ pc' = "awaitCreate"
                              /\ UNCHANGED outcome
    /\ UNCHANGED <<handler, request, authRaised, admin>>

DuplicateCreateReturn ==
    /\ handler = "action"
    /\ request.action = "duplicateMenu"
    /\ pc = "awaitCreate"
    /\ \E reply \in CreateReplies :
          /\ Received(reply)
          /\ Finish(CreateResult("duplicateMenu", "Failed to create new menu.",
                 "An unexpected error occurred.",
                 Text(<<"Menu \"">> \o calls[Len(calls)].title.c
                      \o <<"\" duplicated successfully! New handle: ">>
                      \o calls[Len(calls)].handle.c),
                 reply))
    /\ UNCHANGED <<normVars, handler, request, authRaised, admin, calls>>

\* mutant: no inner try around JSON.parse, so the outer catch reports it
ImportInvalidJsonUncaught(e) ==
    ActionCaught("importMenu", e, "An unexpected error occurred during import.")

\* try { importedData = JSON.parse(fileContent) }
\* catch (e) { return { ..., errors: [{ field: ["file"], ... }] } }
ImportInvalidJson(e) ==
    ActionFailure("importMenu", Arr(<<FieldMessage("file", "Invalid JSON file.")>>))

\* the uploaded file's text arrives: it is parsed, its items are prepared and
\* menuCreate is issued
ImportFileTextReturn ==
    /\ handler = "action"
    /\ pc = "awaitFileText"
    /\ \E suffix \in RandomSuffixes :
          LET importedData == JSONParse(request.menuFile.text)
              itemsToImport == Get(importedData, "items")
              preparedImportedItems == prepareMenuItemsForCreate(itemsToImport)
          IN  IF IsThrow(importedData)
              THEN /\ Finish(ImportInvalidJson(ErrorVal(Str(importedData.m))))
                   /\ UNCHANGED <<normVars, calls>>
              ELSE IF ~CanRead(importedData)
              THEN /\ Finish(ActionCaught("importMenu", TypeErrorVal,
                         "An unexpected error occurred during import."))
                   /\ UNCHANGED <<normVars, calls>>
              ELSE IF ~IsArray(itemsToImport)
              THEN /\ Finish(ActionFailure("importMenu",
                         Arr(<<FieldMessage("file",
                              "Invalid JSON: 'items' array not found.")>>)))
                   /\ UNCHANGED <<normVars, calls>>
              ELSE /\ Normalized("index", itemsToImport, preparedImportedItems)
                   /\ IF IsThrow(preparedImportedItems)
                      THEN /\ Finish(ActionCaught("importMenu",
                                 ErrorVal(Str(preparedImportedItems.m)),
                                 "An unexpected error occurred during import."))
                           /\ UNCHANGED calls
                      ELSE /\ Issued(CreateCall(TrimmedEntry(request.newImportMenuTitle),
                                                suffix, preparedImportedItems))
                           /\ pc' = "awaitCreate"
                           /\ UNCHANGED outcome
    /\ UNCHANGED <<handler, request, authRaised, admin, replies>>

ImportCreateReturn ==
    /\ handler = "action"
    /\ request.action = "importMenu"
    /\ pc = "awaitCreate"
    /\ \E reply \in CreateReplies :
          /\ Received(reply)
          /\ Finish(CreateResult("importMenu", "Failed to create menu from import.",
                 "An unexpected error occurred during import.",
                 Text(<<"Menu \"">> \o calls[Len(calls)].title.c
                      \o <<"\" imported successfully!">>),
                 reply))
    /\ UNCHANGED <<normVars, handler, request, authRaised, admin, calls>>

(*--------------------- app.export-menu[.json].js : loader ----------------*)
\* a request for the export data arrives, with or without a menuId parameter
StartExportLoader ==
    /\ HandlersIdle
    /\ \E menuId \in {Null, Str(""), Str("gid://shopify/Menu/1")} :
          request' = [route |-> "app.export-menu", menuId |-> menuId]
    /\ handler' = "exportLoader"
    /\ pc' = "auth"
    /\ UNCHANGED <<normVars, authRaised, admin, calls, replies, outcome>>

ExportFailure(status, error, details) ==
    Return(status, Obj([error |-> Str(error), details |-> details]))

\* catch (error) { if (error instanceof Response) throw error;
\*                 return json({ error: "Auth error", ... }, 500) }
ExportLoaderAuthFailed(e) ==
    IF IsResponse(e) THEN Thrown(e)
    ELSE ExportFailure(500, "Auth error", MessageOf(e))

\* the catch around the menu query and the preparation of the payload
ExportLoaderFetchFailed(e) ==
    IF IsResponse(e) THEN Thrown(e)
    ELSE ExportFailure(500, "Unexpected error during export data preparation",
                       MessageOf(e))

\* await authenticate.admin(request), then the menuId is read and the menu
\* query is issued
ExportLoaderAuthenticate ==
    /\ handler = "exportLoader"
    /\ pc = "auth"
    /\ \E a \in AuthOutcomes :
          IF a.kind = "raise"
          THEN /\ authRaised' = a.value
               /\ Finish(ExportLoaderAuthFailed(a.value))
               /\ UNCHANGED <<admin, calls>>
          ELSE /\ UNCHANGED authRaised
               /\ admin' = Bool(a.admin)
               /\ IF ~a.admin
                  THEN /\ Finish(ExportFailure(500, "Admin context error",
                              Str("Admin object or graphql method is missing.")))
                       /\ UNCHANGED calls
                  ELSE IF ~Truthy(request.menuId)
                  THEN /\ Finish(Return(400,
                              Obj([error |-> Str("Missing menuId parameter")])))
                       /\ UNCHANGED calls
                  ELSE /\ Issued([op |-> "getMenu", id |-> request.menuId])
                       /\ pc' = "awaitMenuDetails"
                       /\ UNCHANGED outcome
    /\ UNCHANGED <<normVars, handler, request, replies>>

\* the menu details arrive: the export payload is built and returned
ExportLoaderMenuDetailsReturn ==
    /\ handler = "exportLoader"
    /\ pc = "awaitMenuDetails"
    /\ \E reply \in MenuReplies :
          /\ Received(reply)
          /\ IF reply.kind # "json"
             THEN /\ Finish(ExportLoaderFetchFailed(reply.value))
                  /\ UNCHANGED normVars
             ELSE IF ~CanRead(reply.json)
             THEN /\ Finish(ExportLoaderFetchFailed(TypeErrorVal))
                  /\ UNCHANGED normVars
             ELSE IF \/ Truthy(Get(reply.json, "errors"))
                     \/ ~Truthy(Get(Get(reply.json, "data"), "menu"))
             THEN /\ Finish(ExportFailure(500, "Failed to fetch menu details",
                        OrElse(Get(reply.json, "errors"), Str("No menu data found."))))
                  /\ UNCHANGED normVars
             ELSE LET menuData == Get(Get(reply.json, "data"), "menu")
                      items == exportPrepareMenuItemsForCreate(Get(menuData, "items"))
                  IN  /\ Normalized("export", Get(menuData, "items"), items)
                      /\ IF IsThrow(items)
                         THEN Finish(ExportLoaderFetchFailed(ErrorVal(Str(items.m))))
                         ELSE Finish(Return(200,
                                Obj([originalHandle |-> Get(menuData, "handle"),
                                     originalTitle |-> Get(menuData, "title"),
                                     items |-> items])))
    /\ UNCHANGED <<handler, request, authRaised, admin, calls>>

(*------------- app._index.jsx : the client's export download -------------*)
\* exportFetcher.data: the body the export loader returned with json(...),
\* decoded again by the client
ExportFetcherData(body) == JSONParse(JSONStringify(body))

\* const jsonString = JSON.stringify({ items: menuToExport.items }, null, 2)
ExportedFile(menuToExport) ==
    File(1, JSONStringify(Obj([items |-> Get(menuToExport, "items")])))

\* the export loader has answered without an error entry: the client builds
\* the download, and the user uploads that file through the import form with
\* a title; the request remembers the items the menu was exported from
SubmitExportedFile ==
    /\ handler = "exportLoader"
    /\ pc = "done"
    /\ outcome.kind = "return"
    /\ ~Truthy(Get(ExportFetcherData(outcome.body), "error"))
    /\ \E title \in TitleEntries :
          request' = [action |-> "importMenu",
                      newImportMenuTitle |-> title,
                      menuFile |-> ExportedFile(ExportFetcherData(outcome.body)),
                      exportedFrom |-> normArg]
    /\ handler' = "action"
    /\ pc' = "auth"
    /\ normArg' = Undef
    /\ normRet' = NotCalled
    /\ normCopy' = "none"
    /\ authRaised' = NoOutcome
    /\ admin' = Undef
    /\ calls' = <<>>
    /\ replies' = <<>>
    /\ outcome' = NoOutcome

Next ==
    \/ StartPageLoader
    \/ PageLoaderAuthenticate
    \/ PageLoaderMenusReturn
    \/ StartAction
    \/ ActionAuthenticate
    \/ ActionReadForm
    \/ DuplicateMenuDetailsReturn
    \/ DuplicateCreateReturn
    \/ ImportFileTextReturn
    \/ ImportCreateReturn
    \/ StartExportLoader
    \/ ExportLoaderAuthenticate
    \/ ExportLoaderMenuDetailsReturn

Spec == Init /\ [][Next]_vars

\* the handlers, with an export followed by the import of the exported file
NextRoundTrip == Next \/ SubmitExportedFile

SpecRoundTrip == Init /\ [][NextRoundTrip]_vars

(***************************************************************************)
(* Properties of the normalizer                                            *)
(***************************************************************************)
Called == normRet # NotCalled

\* the copy that was called, applied to v
CalledCopy(v) ==
    IF normCopy = "export" THEN exportPrepareMenuItemsForCreate(v)
    ELSE prepareMenuItemsForCreate(v)

\* the length of an input: an absent or null input counts as empty
InputLen(v) == IF IsArray(v) THEN Len(v.a) ELSE 0

MinOf(a, b) == IF a < b THEN a ELSE b

RECURSIVE Pairs(_, _)
\* the <<source item, output item>> pairs at equal positions of an input
\* sequence and an output sequence, at every nesting depth
Pairs(in, out) ==
    IF ~IsArray(in) \/ ~IsArray(out) THEN {}
    ELSE UNION { {<<in.a[k], out.a[k]>>}
                   \cup Pairs(Get(in.a[k], "items"), Get(out.a[k], "items")) :
                 k \in 1..MinOf(Len(in.a), Len(out.a)) }

HasField(item, f) == IsObject(item) /\ f \in DOMAIN item.o

\* the source item has at least one child
HasChild(item) == IsArray(Get(item, "items")) /\ Len(Get(item, "items").a) > 0

\* C1: the result is a sequence (never null or absent) as long as the input,
\* an absent, null or empty input giving the empty sequence, and the k-th
\* output item carries the title, url and type of the k-th input item.
C1_SameLengthOrderAndFields ==
    Called =>
        /\ IsArray(normRet)
        /\ Len(normRet.a) = InputLen(normArg)
        /\ \A k \in 1..InputLen(normArg) :
              /\ HasField(normRet.a[k], "title")
              /\ HasField(normRet.a[k], "url")
              /\ HasField(normRet.a[k], "type")
              /\ normRet.a[k].o.title = Get(normArg.a[k], "title")
              /\ normRet.a[k].o.url = Get(normArg.a[k], "url")
              /\ normRet.a[k].o.type = Get(normArg.a[k], "type")

\* a call on three top-level items whose titles differ has returned
C1_Witness ==
    /\ Called
    /\ normCopy = "index"
    /\ InputLen(normArg) = 3
    /\ Get(normArg.a[1], "title") # Get(normArg.a[2], "title")
    /\ Get(normArg.a[2], "title") # Get(normArg.a[3], "title")

\* C2: at every depth an output item has an items field exactly when its
\* source item had at least one child; the field then is the normalizer's
\* result on the source's children, with as many children in it; a source
\* with empty or absent items gives an output item with no items field.
C2_ItemsIffChildren ==
    Called =>
        \A p \in Pairs(normArg, normRet) :
            /\ HasField(p[2], "items") <=> HasChild(p[1])
            /\ HasChild(p[1]) =>
                  /\ IsArray(p[2].o.items)
                  /\ Len(p[2].o.items.a) = Len(p[1].o.items.a)
                  /\ p[2].o.items = CalledCopy(p[1].o.items)
            /\ ~HasChild(p[1]) => Get(p[2], "items") # Arr(<<>>)

\* below the top level, one item has a child and its sibling an empty items
\* array
C2_Witness ==
    /\ Called
    /\ normCopy = "index"
    /\ \E p \in Pairs(normArg, normRet) :
          /\ HasChild(p[1])
          /\ \E q \in Pairs(p[1].o.items, p[2].o.items) :
                Get(q[1], "items") = Arr(<<>>)

\* C3: at every depth an output item has a resourceId field exactly when the
\* source item's resourceId is truthy, and then with the same value.
C3_ResourceIdIffTruthy ==
    Called =>
        \A p \in Pairs(normArg, normRet) :
            /\ HasField(p[2], "resourceId") <=> Truthy(Get(p[1], "resourceId"))
            /\ HasField(p[2], "resourceId") =>
                  p[2].o.resourceId = Get(p[1], "resourceId")

\* a child item with an empty-string resourceId under a parent with a truthy
\* one, next to a top-level item whose resourceId is null
C3_Witness ==
    /\ Called
    /\ normCopy = "index"
    /\ \E p \in Pairs(normArg, normRet) :
          /\ Get(p[1], "resourceId") = Str("gid://123")
          /\ HasChild(p[1])
          /\ \E q \in Pairs(p[1].o.items, p[2].o.items) :
                Get(q[1], "resourceId") = Str("")
    /\ \E k \in 1..InputLen(normArg) : Get(normArg.a[k], "resourceId") = Null

\* C5: the normalizer is idempotent: applied to one of its own results it
\* returns that result.
C5_Idempotent ==
    Called => CalledCopy(normRet) = normRet

\* a result with two different top-level items, one of them with a child
C5_Witness ==
    /\ Called
    /\ normCopy = "index"
    /\ IsArray(normRet)
    /\ Len(normRet.a) = 2
    /\ normRet.a[1] # normRet.a[2]
    /\ HasField(normRet.a[1], "items")
    /\ HasField(normRet.a[1], "resourceId")

(***************************************************************************)
(* Properties of the handlers                                              *)
(***************************************************************************)
AllowedFields == {"title", "url", "type", "resourceId", "items"}

RECURSIVE OnlyAllowedFields(_)
\* every item of an item sequence, at every depth, has no field outside
\* AllowedFields
OnlyAllowedFields(items) ==
    /\ IsArray(items)
    /\ \A k \in 1..Len(items.a) :
          /\ IsObject(items.a[k])
          /\ DOMAIN items.a[k].o \subseteq AllowedFields
          /\ HasField(items.a[k], "items") => OnlyAllowedFields(items.a[k].o.items)

CreateCalls == { i \in 1..Len(calls) : calls[i].op = "menuCreate" }
FetchCalls == { i \in 1..Len(calls) : calls[i].op = "getMenu" }

Done == pc = "done"
Returned == outcome.kind = "return"

\* the action entered the branch of the named _action value
InFlow(name) ==
    /\ handler = "action"
    /\ request.action = name
    /\ admin = Bool(TRUE)
    /\ pc # "awaitFormData"

\* C4: no item, at any depth, of a result of the normalizer, of the items
\* submitted with menuCreate by the duplicate and import flows, or of the
\* items the export loader returns, has a field other than title, url, type,
\* resourceId and items.
C4_OnlyContractFields ==
    /\ (Called /\ ~IsThrow(normRet)) => OnlyAllowedFields(normRet)
    /\ \A i \in CreateCalls : OnlyAllowedFields(calls[i].items)
    /\ (handler = "exportLoader" /\ Returned /\ outcome.status = 200)
          => OnlyAllowedFields(outcome.body.o.items)

\* the import flow has submitted a tree whose source had an id field on a
\* child item
C4_Witness ==
    /\ InFlow("importMenu")
    /\ CreateCalls # {}
    /\ \E p \in Pairs(normArg, normRet) :
          /\ HasChild(p[1])
          /\ \E q \in Pairs(p[1].o.items, p[2].o.items) : HasField(q[1], "id")

\* the entry is a title that is not blank after trimming
NonBlankEntry(entry) ==
    /\ entry # Null
    /\ \E i \in 1..Len(entry.c) : entry.c[i] \notin Whitespace

\* the entry is a file of positive size
NonEmptyFileEntry(entry) == entry # Null /\ entry.t = "file" /\ entry.size > 0

\* the import flow got a title and a non-empty file, and has ended
ImportFileHandled ==
    /\ InFlow("importMenu")
    /\ NonBlankEntry(request.newImportMenuTitle)
    /\ NonEmptyFileEntry(request.menuFile)
    /\ Done

FailureBody == Returned /\ Get(outcome.body, "success") = Bool(FALSE)

ErrorsOf(body) == Get(body, "errors")

\* some error record of the response is tagged to form field f
TaggedTo(f) ==
    /\ IsArray(ErrorsOf(outcome.body))
    /\ \E k \in 1..Len(ErrorsOf(outcome.body).a) :
          Get(ErrorsOf(outcome.body).a[k], "field") = Arr(<<Str(f)>>)

\* the document is a JSON object whose items field is an array
HasItemsArray(doc) == IsObject(doc) /\ IsArray(Get(doc, "items"))

\* C6 (as claimed): an uploaded file that parses as JSON but is not an object
\* with an items array gives success false with an error tagged to the file
\* field, and no menuCreate request.
C6_ShapelessDocumentTaggedFile ==
    ( /\ ImportFileHandled
      /\ request.menuFile.text.json
      /\ ~HasItemsArray(request.menuFile.text.v) )
    => /\ FailureBody
       /\ TaggedTo("file")
       /\ CreateCalls = {}

C8_AnyAuthFailurePropagates ==
    authRaised # NoOutcome => outcome = Thrown(authRaised)

\* C8 (amended): a Response raised by the authentication collaborator leaves
\* each of the three handlers unchanged; any other error leaves the action
\* unchanged, while the page loader and the export loader return a status 500
\* error body for it.
C8_AuthFailurePropagation ==
    authRaised # NoOutcome =>
        /\ Done
        /\ IsResponse(authRaised) => outcome = Thrown(authRaised)
        /\ handler = "action" => outcome = Thrown(authRaised)
        /\ (handler \in {"pageLoader", "exportLoader"} /\ ~IsResponse(authRaised))
              => /\ Returned
                 /\ outcome.status = 500

\* authentication of a page request has thrown a Response
C8_Witness ==
    /\ handler = "pageLoader"
    /\ authRaised = ResponseVal(401)
    /\ Done

\* a reply that is no decoded menu free of GraphQL errors
FailedFetch(r) ==
    \/ r.kind # "json"
    \/ r.json = Null
    \/ Get(r.json, "errors") # Undef
    \/ ~IsObject(Get(Get(r.json, "data"), "menu"))

\* a reply that did not create a menu
FailedCreate(r) ==
    \/ r.kind # "json"
    \/ r.json = Null
    \/ Get(r.json, "errors") # Undef
    \/ ~IsObject(Get(Get(Get(r.json, "data"), "menuCreate"), "menu"))

\* C9: an execution of the action issues at most one getMenu and at most one
\* menuCreate, issues nothing after a failed reply, and in the duplicate flow
\* issues menuCreate only after getMenu returned a menu without GraphQL errors.
C9_SingleAttempt ==
    handler = "action" =>
        /\ Cardinality(FetchCalls) <= 1
        /\ Cardinality(CreateCalls) <= 1
        /\ Len(replies) <= Len(calls)
        /\ \A i \in 1..Len(replies) :
              (IF calls[i].op = "getMenu" THEN FailedFetch(replies[i])
               ELSE FailedCreate(replies[i])) => Len(calls) = i
        /\ \A i \in CreateCalls :
              IF request.action = "duplicateMenu"
              THEN /\ i = 2
                   /\ calls[1].op = "getMenu"
                   /\ Len(replies) >= 1
                   /\ ~FailedFetch(replies[1])
              ELSE /\ request.action = "importMenu"
                   /\ i = 1

\* a duplication whose menuCreate request was rejected has ended
C9_Witness ==
    /\ InFlow("duplicateMenu")
    /\ Done
    /\ Len(calls) = 2
    /\ Len(replies) = 2
    /\ replies[2].kind = "reject"

\* a required field of the duplicate form is missing
DuplicateFieldMissing ==
    \/ request.originalMenuId \in {Null, Str("")}
    \/ ~NonBlankEntry(request.newMenuTitle)

\* a required field of the import form is missing
ImportFieldMissing ==
    \/ ~NonBlankEntry(request.newImportMenuTitle)
    \/ ~NonEmptyFileEntry(request.menuFile)

\* some error record of the response carries a field tag
SomeFieldTag ==
    /\ IsArray(ErrorsOf(outcome.body))
    /\ \E k \in 1..Len(ErrorsOf(outcome.body).a) :
          HasField(ErrorsOf(outcome.body).a[k], "field")

\* C10: in the duplicate and import flows a missing required form field gives
\* success false with an error record carrying a field tag, and no remote
\* request is issued.
C10_MissingFieldRejected ==
    ( \/ InFlow("duplicateMenu") /\ DuplicateFieldMissing
      \/ InFlow("importMenu") /\ ImportFieldMissing )
    => /\ Done
       /\ FailureBody
       /\ SomeFieldTag
       /\ calls = <<>>

\* a duplication with a menu id and a blank title has ended
C10_Witness ==
    /\ InFlow("duplicateMenu")
    /\ request.originalMenuId = Str("gid://shopify/Menu/1")
    /\ request.newMenuTitle = Text(<<" ", "\t">>)
    /\ Done

\* the decoded body of the reply to menuCreate, once it has arrived
CreateReplied ==
    /\ handler = "action"
    /\ Done
    /\ CreateCalls # {}
    /\ Len(replies) = Len(calls)
    /\ replies[Len(replies)].kind = "json"
    /\ replies[Len(replies)].json # Null

CreateJson == replies[Len(replies)].json

\* the GraphQL-level errors and the user errors of a menuCreate body, as
\* sequences (empty when the entry is absent)
UpstreamGqlErrors ==
    IF IsArray(Get(CreateJson, "errors")) THEN Get(CreateJson, "errors").a ELSE <<>>
UpstreamUserErrors ==
    LET u == Get(Get(Get(CreateJson, "data"), "menuCreate"), "userErrors")
    IN  IF IsArray(u) THEN u.a ELSE <<>>

\* C11 (as claimed): when the menuCreate response carries GraphQL-level
\* errors or a non-empty userErrors list, the action returns success false
\* and its errors are the upstream error records with nothing dropped, also
\* when the response carries both kinds.
C11_UpstreamErrorsAllForwarded ==
    (CreateReplied /\ (UpstreamGqlErrors # <<>> \/ UpstreamUserErrors # <<>>))
    => /\ FailureBody
       /\ IsArray(ErrorsOf(outcome.body))
       /\ Range(ErrorsOf(outcome.body).a)
             = Range(UpstreamGqlErrors) \cup Range(UpstreamUserErrors)

\* C11 (amended): the action then returns success false and its errors list
\* is the userErrors list when that is non-empty, and otherwise the list of
\* GraphQL-level errors; a response with both kinds has its GraphQL-level
\* errors dropped.
C11_UpstreamErrorsForwarded ==
    (CreateReplied /\ (UpstreamGqlErrors # <<>> \/ UpstreamUserErrors # <<>>))
    => /\ FailureBody
       /\ ErrorsOf(outcome.body)
             = IF UpstreamUserErrors # <<>> THEN Arr(UpstreamUserErrors)
               ELSE Arr(UpstreamGqlErrors)

\* an import whose menuCreate response carried two GraphQL-level errors and
\* no user error has ended
C11_Witness ==
    /\ InFlow("importMenu")
    /\ CreateReplied
    /\ Len(UpstreamGqlErrors) = 2
    /\ UpstreamUserErrors = <<>>

\* a remote request of the action was rejected or its body could not be used
RemoteCallFailed ==
    \E i \in 1..Len(replies) :
        \/ replies[i].kind \in {"reject", "badBody"}
        \/ replies[i].kind = "json" /\ replies[i].json = Null

\* the normalizer threw on the items it was given
NormalizerThrew == Called /\ IsThrow(normRet)

\* the uploaded document parsed to null, whose items cannot be read
ImportedNull ==
    /\ ImportFileHandled
    /\ request.menuFile.text.json
    /\ request.menuFile.text.v = Null

\* C12: in the duplicate and import flows a failure that is neither a
\* validation error nor an upstream error (a rejected GraphQL call, an
\* unreadable response body, an exception of the normalizer or of the code
\* around it) is caught: the action does not throw, and returns success false
\* with exactly one error record, which carries a message.
C12_UnexpectedFailureCaught ==
    ( /\ InFlow("duplicateMenu") \/ InFlow("importMenu")
      /\ RemoteCallFailed \/ NormalizerThrew \/ ImportedNull )
    => /\ Done
       /\ Returned
       /\ FailureBody
       /\ IsArray(ErrorsOf(outcome.body))
       /\ Len(ErrorsOf(outcome.body).a) = 1
       /\ Get(ErrorsOf(outcome.body).a[1], "message").t = "string"
       /\ Get(ErrorsOf(outcome.body).a[1], "message") # Str("")

\* a duplication whose getMenu call was rejected with a Response has ended
C12_Witness ==
    /\ InFlow("duplicateMenu")
    /\ Len(replies) = 1
    /\ replies[1].kind = "reject"
    /\ IsResponse(replies[1].value)
    /\ Done

\* the request uploads a file that was exported from a menu
ImportsExportedFile ==
    /\ handler = "action"
    /\ request.action = "importMenu"
    /\ "exportedFrom" \in DOMAIN request

\* C13: the items the import flow submits to menuCreate for the file exported
\* from a menu's item tree m are the items the duplicate flow submits for m,
\* that is the page route's prepareMenuItemsForCreate(m); the duplicate flow
\* submits exactly that for the tree it fetched, and the export route's copy
\* of the normalizer returns what the page route's copy returns.
C13_ExportImportRoundTrip ==
    /\ (ImportsExportedFile /\ CreateCalls # {})
          => /\ Len(calls) = 1
             /\ calls[1].items = prepareMenuItemsForCreate(request.exportedFrom)
    /\ (ImportsExportedFile /\ NonBlankEntry(request.newImportMenuTitle)
          /\ pc \in {"awaitCreate", "done"} /\ admin = Bool(TRUE))
          => CreateCalls # {}
    /\ (handler = "action" /\ request.action = "duplicateMenu" /\ CreateCalls # {})
          => /\ Len(calls) = 2
             /\ calls[2].items =
                  prepareMenuItemsForCreate(
                      Get(Get(Get(replies[1].json, "data"), "menu"), "items"))
    /\ (Called /\ normCopy = "export")
          => normRet = prepareMenuItemsForCreate(normArg)

\* the file exported from a two-level tree whose child has a resourceId and
\* whose parent has an id has been imported, and menuCreate has been issued
C13_Witness ==
    /\ ImportsExportedFile
    /\ CreateCalls # {}
    /\ IsArray(request.exportedFrom)
    /\ Len(request.exportedFrom.a) = 1
    /\ HasField(request.exportedFrom.a[1], "id")
    /\ HasChild(request.exportedFrom.a[1])
    /\ Truthy(Get(request.exportedFrom.a[1].o.items.a[1], "resourceId"))
    /\ request.exportedFrom # JSONParse(request.menuFile.text).o.items

\* the action has answered the request with a response
ActionResponded == handler = "action" /\ Done /\ Returned

Succeeded == Get(outcome.body, "success") = Bool(TRUE)

\* exactly one menuCreate was issued, and its reply holds a created menu, no
\* user error and no GraphQL-level errors
CreatedCleanly ==
    /\ Cardinality(CreateCalls) = 1
    /\ CreateReplied
    /\ Truthy(Get(Get(Get(CreateJson, "data"), "menuCreate"), "menu"))
    /\ UpstreamUserErrors = <<>>
    /\ Get(CreateJson, "errors") = Undef

\* C14: a response of the action has success true only if exactly one
\* menuCreate was issued in the request and its reply held a created menu, an
\* empty or absent userErrors list and no GraphQL-level errors; every other
\* response of the action has success false and a non-empty errors list.
C14_SuccessOnlyAfterCleanCreate ==
    /\ (ActionResponded /\ Succeeded) => CreatedCleanly
    /\ (ActionResponded /\ ~CreatedCleanly)
          => /\ FailureBody
             /\ IsArray(ErrorsOf(outcome.body))
             /\ Len(ErrorsOf(outcome.body).a) > 0

\* a duplication has ended with success after a reply without a userErrors
\* entry
C14_Witness ==
    /\ InFlow("duplicateMenu")
    /\ ActionResponded
    /\ Succeeded
    /\ Get(Get(Get(CreateJson, "data"), "menuCreate"), "userErrors") = Undef

====
